---- MODULE Spec2Model ----
(***************************************************************************)
(* extract_text_from_pptx of ppt-xtract.py as a state machine.             *)
(*                                                                         *)
(* A string is a sequence of tokens; a token is either a whitespace        *)
(* character (" " or "\n") or a run of non-whitespace text, so that        *)
(* str.strip(), str.join() and truthiness are computed as Python computes  *)
(* them.  A package is the input file: its slides in presentation order,   *)
(* the relationship parts ppt/slides/_rels/slide<j>.xml.rels by part       *)
(* number j, and the comment parts ppt/comments/<name> by name.            *)
(***************************************************************************)
EXTENDS Integers, Sequences, FiniteSets, TLC

VARIABLES pkg, include_comments, pc, i, relIdx, cmIdx,
          all_comments, extracted_data, handles, warned, returned

vars == <<pkg, include_comments, pc, i, relIdx, cmIdx,
          all_comments, extracted_data, handles, warned, returned>>

\* ------------------------------------------------------------- bounds
MaxSlides == 2
MaxShapes == 2
MaxTop == 1
MaxRels == 2
MaxCm == 2

\* ------------------------------------------------------------ strings
Whitespace == {" ", "\n"}

Truthy(s) == s # <<>>

RECURSIVE LStrip(_)
LStrip(s) ==
  IF s # <<>> /\ Head(s) \in Whitespace THEN LStrip(Tail(s)) ELSE s

RECURSIVE RStrip(_)
RStrip(s) ==
  IF s # <<>> /\ s[Len(s)] \in Whitespace
  THEN RStrip(SubSeq(s, 1, Len(s) - 1)) ELSE s

Strip(s) == RStrip(LStrip(s))

RECURSIVE Join(_, _)
Join(sep, parts) ==
  IF parts = <<>> THEN <<>>
  ELSE IF Len(parts) = 1 THEN parts[1]
  ELSE parts[1] \o sep \o Join(sep, Tail(parts))

FilterNone(parts) == SelectSeq(parts, Truthy)

\* --------------------------------------------------- the XML namespace map
\* ns['r'], the namespace the code looks Relationship elements up in.
ns_r == "http://schemas.openxmlformats.org/officeDocument/2006/relationships"
\* The namespace the packaging format gives the elements of a .rels part.
ns_package == "http://schemas.openxmlformats.org/package/2006/relationships"

\* ------------------------------------------------- slide body extraction
HasTextFrame(s) == s.has_text_frame

TextShapes(slide) == SelectSeq(slide.shapes, HasTextFrame)

\* s.top is None
TopIsNone(s) == ~s.has_top

\* sorted() compares keys with <; None < x raises TypeError, and every
\* element of a list of two or more takes part in a comparison.
SortRaises(shapes) ==
  Len(shapes) >= 2 /\ \E n \in 1..Len(shapes) : TopIsNone(shapes[n])

\* The mutant of TopBefore: ties are broken the wrong way round.
TopBeforeOrEqual(a, b) == a.top <= b.top

\* key(a) < key(b), the only comparison sorted() makes.
TopBefore(a, b) == a.top < b.top

\* sorted() is stable: a shape goes before the first shape that is
\* strictly below it, so after the shapes of equal top that came earlier.
RECURSIVE InsertByTop(_, _)
InsertByTop(s, sorted) ==
  IF sorted = <<>> THEN <<s>>
  ELSE IF TopBefore(s, Head(sorted)) THEN <<s>> \o sorted
  ELSE <<Head(sorted)>> \o InsertByTop(s, Tail(sorted))

RECURSIVE SortedByTop(_)
SortedByTop(shapes) ==
  IF shapes = <<>> THEN <<>>
  ELSE InsertByTop(shapes[Len(shapes)],
                   SortedByTop(SubSeq(shapes, 1, Len(shapes) - 1)))

LineBreak == <<" ", " ", "\n">>
BlankLine == <<"\n", "\n">>
NotesHeader == <<"\n", "--- Speaker Notes ---", "\n">>

\* "  \n".join(p.text for p in paragraphs if p.text)
ShapeText(shape) == Join(LineBreak, SelectSeq(shape.paragraphs, Truthy))

\* The mutant of NotesNonBlank: the notes are tested without strip().
NotesNonEmpty(notes_text) == Truthy(notes_text)

\* if notes_text.strip():
NotesNonBlank(notes_text) == Truthy(Strip(notes_text))

\* slide.notes_slide.notes_text_frame is None: .text raises AttributeError
NotesRaise(slide) ==
  slide.notes.has_notes_slide /\ ~slide.notes.has_text_frame

NotesPart(slide) ==
  IF slide.notes.has_notes_slide /\ NotesNonBlank(slide.notes.text)
  THEN <<NotesHeader \o slide.notes.text>>
  ELSE <<>>

SlideTextParts(slide) ==
  LET shapes == SortedByTop(TextShapes(slide))
  IN  [n \in 1..Len(shapes) |-> ShapeText(shapes[n])] \o NotesPart(slide)

SlideText(slide) == Strip(Join(BlankLine, FilterNone(SlideTextParts(slide))))

SlideRaises(slide) == SortRaises(TextShapes(slide)) \/ NotesRaise(slide)

\* The mutant of SlideNumber: the 0-based enumerate index is used as is.
SlideIndex(n) == n

SlideNumber(n) == n + 1

\* ------------------------------------------------------ the input package
SeqsUpTo(S, n) == UNION {[1..m -> S] : m \in 0..n}

SlideOrders(n) ==
  {f \in [1..n -> 1..n] : \A a, b \in 1..n : f[a] = f[b] => a = b}

Picture ==
  [has_text_frame |-> FALSE, has_top |-> TRUE, top |-> 0, paragraphs |-> <<>>]

TextBox(t, paragraphs) ==
  [has_text_frame |-> TRUE, has_top |-> TRUE, top |-> t,
   paragraphs |-> paragraphs]

\* a text shape without an a:xfrm element: shape.top is None
Unplaced(paragraphs) ==
  [has_text_frame |-> TRUE, has_top |-> FALSE, top |-> 0,
   paragraphs |-> paragraphs]

ParaLists == { <<<<>>>>, <<<<"a">>>>, <<<<"b">>, <<>>, <<"c">>>> }

Shapes ==
  {Picture}
    \cup {TextBox(t, p) : t \in 0..MaxTop, p \in ParaLists}
    \cup {Unplaced(p) : p \in ParaLists}

NoNotes == [has_notes_slide |-> FALSE, has_text_frame |-> FALSE, text |-> <<>>]
NoNotesFrame ==
  [has_notes_slide |-> TRUE, has_text_frame |-> FALSE, text |-> <<>>]
Notes(text) == [has_notes_slide |-> TRUE, has_text_frame |-> TRUE, text |-> text]

NotesSet ==
  {NoNotes, NoNotesFrame, Notes(<<>>), Notes(<<" ", "\n">>), Notes(<<"n", "\n">>)}

Slide(part, shapes, notes) ==
  [part |-> part, shapes |-> shapes, notes |-> notes]

DefaultSlide(part) == Slide(part, <<TextBox(0, <<<<"a">>>>)>>, NoNotes)

\* relationship parts
AbsentRels == [present |-> FALSE, well_formed |-> FALSE, rels |-> <<>>]
MalformedRels == [present |-> TRUE, well_formed |-> FALSE, rels |-> <<>>]
RelsOf(entries) == [present |-> TRUE, well_formed |-> TRUE, rels |-> entries]

CommentNames == {"comment1.xml", "comment2.xml"}

CommentFor(j) == IF j = 1 THEN "comment1.xml" ELSE "comment2.xml"

Relationship(namespace, target) ==
  [ns |-> namespace, has_target |-> TRUE, target |-> target]

\* a Relationship element without a Target attribute
NoTargetRelationship(namespace) ==
  [ns |-> namespace, has_target |-> FALSE, target |-> <<>>]

LinkTo(name) == Relationship(ns_r, <<"..", "comments", name>>)

RelEntries ==
  {NoTargetRelationship(ns_r),
   Relationship(ns_r, <<"..", "slideLayouts", "slideLayout1.xml">>),
   Relationship(ns_package, <<"..", "comments", "comment1.xml">>)}
    \cup {LinkTo(name) : name \in CommentNames}

RelsParts ==
  {AbsentRels, MalformedRels} \cup {RelsOf(e) : e \in SeqsUpTo(RelEntries, MaxRels)}

\* comment parts
Cm(has_text, text, has_author, has_name, name) ==
  [has_text |-> has_text, text |-> text, has_author |-> has_author,
   has_name |-> has_name, name |-> name]

CmAlice == Cm(TRUE, <<"Looks good">>, TRUE, TRUE, <<"Alice">>)
CmBob == Cm(TRUE, <<"Fix typo">>, TRUE, TRUE, <<"Bob">>)
CmCarol == Cm(TRUE, <<"ok">>, TRUE, TRUE, <<"Carol">>)
\* <p:text/> and an author element without a name attribute
CmNoName == Cm(TRUE, <<>>, TRUE, FALSE, <<>>)
\* no p:text element
CmNoText == Cm(FALSE, <<>>, TRUE, TRUE, <<"Alice">>)
\* no p:authorLst/p:author element
CmNoAuthor == Cm(TRUE, <<"Fix typo">>, FALSE, FALSE, <<>>)

CmNodes == {CmAlice, CmBob, CmNoName, CmNoText, CmNoAuthor}

AbsentPart == [present |-> FALSE, well_formed |-> FALSE, cms |-> <<>>]
MalformedPart == [present |-> TRUE, well_formed |-> FALSE, cms |-> <<>>]
PartOf(cms) == [present |-> TRUE, well_formed |-> TRUE, cms |-> cms]

CommentParts ==
  {AbsentPart, MalformedPart} \cup {PartOf(c) : c \in SeqsUpTo(CmNodes, MaxCm)}

DefaultComments ==
  [name \in CommentNames |->
     IF name = "comment1.xml" THEN PartOf(<<CmAlice, CmBob>>)
     ELSE PartOf(<<CmCarol>>)]

Package(slides, rels, comments) ==
  [openable |-> TRUE, slides |-> slides, rels |-> rels, comments |-> comments]

\* a file that is no package
Unopenable ==
  [openable |-> FALSE, slides |-> <<>>, rels |-> <<>>, comments |-> DefaultComments]

\* one slide with any shapes, the other slides and the comments plain
BodyPackages ==
  UNION {
    {Package([j \in 1..n |->
                IF j = k THEN Slide(j, sh, NoNotes) ELSE DefaultSlide(j)],
             [j \in 1..n |-> AbsentRels],
             DefaultComments)
      : k \in 1..n, sh \in SeqsUpTo(Shapes, MaxShapes)}
    : n \in 1..MaxSlides}

\* one slide with any notes
NotesPackages ==
  UNION {
    {Package([j \in 1..n |->
                IF j = k THEN Slide(j, sh, nt) ELSE DefaultSlide(j)],
             [j \in 1..n |-> AbsentRels],
             DefaultComments)
      : k \in 1..n, nt \in NotesSet,
        sh \in {<<>>, <<Picture>>, <<TextBox(0, <<<<>>>>)>>,
                <<TextBox(0, <<<<"a">>>>)>>}}
    : n \in 1..MaxSlides}

\* one slide with any relationship part
RelsPackages ==
  UNION {
    {Package([j \in 1..n |-> DefaultSlide(j)],
             [j \in 1..n |->
                IF j = k THEN r ELSE RelsOf(<<LinkTo(CommentFor(j))>>)],
             DefaultComments)
      : k \in 1..n, r \in RelsParts}
    : n \in 1..MaxSlides}

\* the slide parts in any presentation order
OrderPackages ==
  UNION {
    {Package([j \in 1..n |-> DefaultSlide(order[j])], r, DefaultComments)
      : order \in SlideOrders(n),
        r \in [1..n -> {AbsentRels, MalformedRels}
                         \cup {RelsOf(<<LinkTo(c)>>) : c \in CommentNames}]}
    : n \in 1..MaxSlides}

\* one comment part with any content
CommentPackages ==
  UNION {
    {Package([j \in 1..n |-> DefaultSlide(j)],
             [j \in 1..n |-> RelsOf(<<LinkTo(CommentFor(j))>>)],
             [name \in CommentNames |-> IF name = m THEN c ELSE other])
      : m \in CommentNames, c \in CommentParts,
        other \in {AbsentPart, MalformedPart, PartOf(<<CmCarol>>)}}
    : n \in 1..MaxSlides}

Packages ==
  {Unopenable} \cup BodyPackages \cup NotesPackages \cup RelsPackages
    \cup OrderPackages \cup CommentPackages

\* ------------------------------------------------------------ the run
NotCalled == [status |-> "none", data |-> <<>>, warned |-> FALSE]
Raised == [status |-> "raised", data |-> <<>>, warned |-> FALSE]
Returned(data, w) == [status |-> "ok", data |-> data, warned |-> w]

NumSlides == Len(pkg.slides)

\* dict.get(k, [])
Get(d, k) == IF k \in DOMAIN d THEN d[k] ELSE <<>>

\* dict.setdefault(k, [])
SetDefault(d, k) == IF k \in DOMAIN d THEN d ELSE (k :> <<>>) @@ d

\* rel_tree.findall(".//r:Relationship", ns)
InNs(rel) == rel.ns = ns_r

FindAllRelationships(part) == SelectSeq(part.rels, InNs)

\* "comments" in target: of the path segments of the targets, only the
\* directory name "comments" holds the substring
ContainsComments(target) ==
  \E n \in 1..Len(target) : target[n] = "comments"

\* os.path.basename(target)
Basename(target) == target[Len(target)]

\* 'ppt/comments/' + basename in zf.namelist()
InNamelist(name) == name \in DOMAIN pkg.comments /\ pkg.comments[name].present

UnknownAuthor == <<"Unknown Author">>

\* comment.find('.//p:authorLst/p:author', ns).get('name', 'Unknown Author')
AuthorName(cm) == IF cm.has_name THEN cm.name ELSE UnknownAuthor

\* f"{author}: {text}"
FormatComment(author, text) == author \o <<": ">> \o text

\* comment.find(...) is None for the text or for the author: AttributeError
CmRaises(cm) == ~cm.has_text \/ ~cm.has_author

\* The mutant of CloseHandle: the archive handle is left open.
LeakArchive(h, name) == IF name = "zf" THEN h ELSE h \ {name}

\* __exit__ of a with block
CloseHandle(h, name) == h \ {name}

\* an exception leaves the with blocks innermost first
Unwind(h) == CloseHandle(CloseHandle(CloseHandle(h, "cf"), "rel_file"), "zf")

\* The mutant of CommentStep: the comment step runs whatever the flag.
AlwaysComments(flag) == "open_zip"

\* if include_comments:
CommentStep(flag) == IF flag THEN "open_zip" ELSE "body"

Init ==
  /\ pkg \in Packages
  /\ include_comments = FALSE
  /\ pc = "idle"
  /\ i = 0
  /\ relIdx = 0
  /\ cmIdx = 0
  /\ all_comments = <<>>
  /\ extracted_data = <<>>
  /\ handles = {}
  /\ warned = FALSE
  /\ returned = [f \in BOOLEAN |-> NotCalled]

\* the locals of a call that has ended
Finish(flag, result) ==
  /\ returned' = [returned EXCEPT ![flag] = result]
  /\ pc' = "idle"
  /\ i' = 0
  /\ relIdx' = 0
  /\ cmIdx' = 0
  /\ all_comments' = <<>>
  /\ extracted_data' = <<>>
  /\ warned' = FALSE
  /\ UNCHANGED <<pkg, handles>>

\* except Exception as e: print(Warning ...); then the slide loop
CommentFailure ==
  /\ handles' = Unwind(handles)
  /\ warned' = TRUE
  /\ pc' = "body"
  /\ i' = 0
  /\ relIdx' = 0
  /\ cmIdx' = 0
  /\ UNCHANGED <<pkg, include_comments, all_comments, extracted_data, returned>>

\* extract_text_from_pptx(pptx_file, include_comments): Presentation(pptx_file)
Call(flag) ==
  /\ pc = "idle"
  /\ returned[flag].status = "none"
  /\ include_comments' = flag
  /\ IF ~pkg.openable
     THEN Finish(flag, Raised)
     ELSE /\ pc' = CommentStep(flag)
          /\ extracted_data' = <<>>
          /\ all_comments' = <<>>
          /\ warned' = FALSE
          /\ i' = 0
          /\ UNCHANGED <<pkg, relIdx, cmIdx, handles, returned>>

\* with zipfile.ZipFile(pptx_file, 'r') as zf:
OpenArchive ==
  /\ pc = "open_zip"
  /\ handles' = handles \cup {"zf"}
  /\ i' = 1
  /\ pc' = "slide_rels"
  /\ UNCHANGED <<pkg, include_comments, relIdx, cmIdx, all_comments,
                 extracted_data, warned, returned>>

\* for i in range(1, len(prs.slides) + 1): if rel_file_path in zf.namelist():
NextSlideRels ==
  /\ pc = "slide_rels"
  /\ IF i > NumSlides
     THEN /\ handles' = CloseHandle(handles, "zf")
          /\ pc' = "body"
          /\ i' = 0
          /\ UNCHANGED <<relIdx>>
     ELSE IF ~pkg.rels[i].present
     THEN /\ i' = i + 1
          /\ UNCHANGED <<pc, handles, relIdx>>
     ELSE /\ handles' = handles \cup {"rel_file"}
          /\ pc' = "parse_rels"
          /\ UNCHANGED <<i, relIdx>>
  /\ UNCHANGED <<pkg, include_comments, cmIdx, all_comments, extracted_data,
                 warned, returned>>

\* rel_tree = ET.parse(rel_file)
ParseRels ==
  /\ pc = "parse_rels"
  /\ IF ~pkg.rels[i].well_formed
     THEN CommentFailure
     ELSE /\ relIdx' = 1
          /\ pc' = "rel_loop"
          /\ UNCHANGED <<pkg, include_comments, i, cmIdx, all_comments,
                         extracted_data, handles, warned, returned>>

\* for rel in rel_tree.findall(...): up to the opening of the comment part
NextRelationship ==
  /\ pc = "rel_loop"
  /\ LET found == FindAllRelationships(pkg.rels[i])
     IN  IF relIdx > Len(found)
         THEN /\ handles' = CloseHandle(handles, "rel_file")
              /\ i' = i + 1
              /\ relIdx' = 0
              /\ pc' = "slide_rels"
              /\ UNCHANGED <<pkg, include_comments, cmIdx, all_comments,
                             extracted_data, warned, returned>>
         ELSE IF ~found[relIdx].has_target
         THEN CommentFailure
         ELSE IF ~ContainsComments(found[relIdx].target)
                   \/ ~InNamelist(Basename(found[relIdx].target))
         THEN /\ relIdx' = relIdx + 1
              /\ UNCHANGED <<pkg, include_comments, pc, i, cmIdx, all_comments,
                             extracted_data, handles, warned, returned>>
         ELSE /\ all_comments' = SetDefault(all_comments, i)
              /\ handles' = handles \cup {"cf"}
              /\ pc' = "parse_cm"
              /\ UNCHANGED <<pkg, include_comments, i, relIdx, cmIdx,
                             extracted_data, warned, returned>>

\* the comment part the current relationship resolves to
CurrentPart ==
  pkg.comments[Basename(FindAllRelationships(pkg.rels[i])[relIdx].target)]

\* comment_tree = ET.parse(cf)
ParseComments ==
  /\ pc = "parse_cm"
  /\ IF ~CurrentPart.well_formed
     THEN CommentFailure
     ELSE /\ cmIdx' = 1
          /\ pc' = "cm_loop"
          /\ UNCHANGED <<pkg, include_comments, i, relIdx, all_comments,
                         extracted_data, handles, warned, returned>>

\* for comment in comment_tree.findall('.//p:cm', ns):
NextComment ==
  /\ pc = "cm_loop"
  /\ LET cms == CurrentPart.cms
     IN  IF cmIdx > Len(cms)
         THEN /\ handles' = CloseHandle(handles, "cf")
              /\ relIdx' = relIdx + 1
              /\ cmIdx' = 0
              /\ pc' = "rel_loop"
              /\ UNCHANGED <<pkg, include_comments, i, all_comments,
                             extracted_data, warned, returned>>
         ELSE IF CmRaises(cms[cmIdx])
         THEN CommentFailure
         ELSE /\ all_comments' =
                   [all_comments EXCEPT
                      ![i] = Append(@, FormatComment(AuthorName(cms[cmIdx]),
                                                     cms[cmIdx].text))]
              /\ cmIdx' = cmIdx + 1
              /\ UNCHANGED <<pkg, include_comments, pc, i, relIdx,
                             extracted_data, handles, warned, returned>>

\* for i, slide in enumerate(prs.slides): one slide's record
ExtractSlide ==
  /\ pc = "body"
  /\ i < NumSlides
  /\ LET slide == pkg.slides[i + 1]
         slide_number == SlideNumber(i)
     IN  IF SlideRaises(slide)
         THEN /\ Finish(include_comments, Raised)
              /\ UNCHANGED include_comments
         ELSE /\ extracted_data' =
                   Append(extracted_data,
                          [slide_number |-> slide_number,
                           body_text |-> SlideText(slide),
                           comments |-> Get(all_comments, slide_number)])
              /\ i' = i + 1
              /\ UNCHANGED <<pkg, include_comments, pc, relIdx, cmIdx,
                             all_comments, handles, warned, returned>>

\* return extracted_data
Return ==
  /\ pc = "body"
  /\ i >= NumSlides
  /\ Finish(include_comments, Returned(extracted_data, warned))
  /\ UNCHANGED include_comments

Next ==
  \/ \E flag \in BOOLEAN : Call(flag)
  \/ OpenArchive
  \/ NextSlideRels
  \/ ParseRels
  \/ NextRelationship
  \/ ParseComments
  \/ NextComment
  \/ ExtractSlide
  \/ Return

Spec == Init /\ [][Next]_vars

\* ------------------------------------------------- what the claims speak of
\* the k-th slide in presentation order is the part slide<k>.xml
IdentityOrder == \A k \in 1..NumSlides : pkg.slides[k].part = k

\* a relationship whose comment part exists in the archive
Resolves(rel) ==
  rel.has_target /\ ContainsComments(rel.target)
    /\ InNamelist(Basename(rel.target))

\* a relationship whose target contains "comments", in whatever namespace
IsCommentLink(rel) == rel.has_target /\ ContainsComments(rel.target)

CompleteCm(cm) == cm.has_text /\ cm.has_author /\ cm.has_name

\* a comment part that parses and whose comments all have text and author
CleanPart(part) ==
  part.present /\ part.well_formed
    /\ \A n \in 1..Len(part.cms) : CompleteCm(part.cms[n])

\* the comments of a part, with the defaults the specification gives
DefaultedComments(part) ==
  [n \in 1..Len(part.cms) |->
     FormatComment(
       IF part.cms[n].has_author /\ part.cms[n].has_name
       THEN part.cms[n].name ELSE UnknownAuthor,
       IF part.cms[n].has_text THEN part.cms[n].text ELSE <<>>)]

RECURSIVE ConcatAll(_)
ConcatAll(seqs) ==
  IF seqs = <<>> THEN <<>> ELSE Head(seqs) \o ConcatAll(Tail(seqs))

\* resolving the relationship part slide<j>.xml.rels alone fails
ResolutionFails(j) ==
  LET part == pkg.rels[j]
      found == FindAllRelationships(part)
  IN  /\ part.present
      /\ \/ ~part.well_formed
         \/ \E n \in 1..Len(found) :
              \/ ~found[n].has_target
              \/ /\ Resolves(found[n])
                 /\ \/ ~pkg.comments[Basename(found[n].target)].well_formed
                    \/ \E c \in 1..Len(pkg.comments[Basename(found[n].target)].cms) :
                         CmRaises(pkg.comments[Basename(found[n].target)].cms[c])

\* the comments resolving slide<j>.xml.rels alone gives when nothing fails
ExpectedComments(j) ==
  LET links == SelectSeq(FindAllRelationships(pkg.rels[j]), Resolves)
  IN  ConcatAll([n \in 1..Len(links) |->
                   DefaultedComments(pkg.comments[Basename(links[n].target)])])

\* the text-bearing shapes of a slide, by their index in the document
TextShapeIndices(slide) ==
  {n \in 1..Len(slide.shapes) : slide.shapes[n].has_text_frame}

\* order lists the text-bearing shapes once each, top to bottom, shapes of
\* equal top in document order
IsReadingOrder(order, slide) ==
  /\ {order[n] : n \in 1..Len(order)} = TextShapeIndices(slide)
  /\ Len(order) = Cardinality(TextShapeIndices(slide))
  /\ \A a, b \in 1..Len(order) :
       a < b =>
         \/ slide.shapes[order[a]].top < slide.shapes[order[b]].top
         \/ /\ slide.shapes[order[a]].top = slide.shapes[order[b]].top
            /\ order[a] < order[b]

TextInOrder(order, slide) ==
  Strip(Join(BlankLine,
             FilterNone([n \in 1..Len(order) |->
                           ShapeText(slide.shapes[order[n]])]
                        \o NotesPart(slide))))

\* no text-bearing shape has a paragraph with text
OnlyBlankShapes(slide) ==
  \A n \in TextShapeIndices(slide) :
    \A p \in 1..Len(slide.shapes[n].paragraphs) :
      slide.shapes[n].paragraphs[p] = <<>>

\* no notes, or notes of whitespace only
NoNonBlankNotes(slide) ==
  \/ ~slide.notes.has_notes_slide
  \/ \A n \in 1..Len(slide.notes.text) : slide.notes.text[n] \in Whitespace

\* ---------------------------------------------------------------- claims

C2_ReadingOrder ==
  \A f \in BOOLEAN :
    returned[f].status = "ok" =>
      \A k \in 1..NumSlides :
        \E order \in SeqsUpTo(1..Len(pkg.slides[k].shapes),
                              Len(pkg.slides[k].shapes)) :
          /\ IsReadingOrder(order, pkg.slides[k])
          /\ returned[f].data[k].body_text = TextInOrder(order, pkg.slides[k])

\* a slide whose lower shape comes first in the document, and one with a tie
C2_Witness ==
  /\ returned[TRUE].status = "ok"
  /\ \E k \in 1..NumSlides :
       LET sh == pkg.slides[k].shapes
       IN  /\ Len(sh) = 2
           /\ sh[1].has_text_frame /\ sh[2].has_text_frame
           /\ sh[1].top > sh[2].top
           /\ ShapeText(sh[1]) # <<>> /\ ShapeText(sh[2]) # <<>>
           /\ ShapeText(sh[1]) # ShapeText(sh[2])
           /\ returned[TRUE].data[k].body_text =
                ShapeText(sh[2]) \o BlankLine \o ShapeText(sh[1])

\* C3: with comments enabled, a slide whose relationship part has one entry
\* with a target containing "comments" that resolves to a comment part with
\* comments c1..cn has exactly those comments, in order, in its record.
C3_CommentsOfLinkedPart ==
  (returned[TRUE].status = "ok" /\ ~returned[TRUE].warned /\ IdentityOrder) =>
    \A k \in 1..NumSlides :
      LET part == pkg.rels[k]
          links == SelectSeq(part.rels, IsCommentLink)
      IN  (/\ part.present /\ part.well_formed
           /\ Len(links) = 1
           /\ InNamelist(Basename(links[1].target))
           /\ CleanPart(pkg.comments[Basename(links[1].target)]))
          => returned[TRUE].data[k].comments =
               DefaultedComments(pkg.comments[Basename(links[1].target)])

\* C4: every comment node of a resolved comment part is added to the slide's
\* comments, a missing text as "" and a missing author name, author element or
\* author list as "Unknown Author", and nothing fails.
C4_DefaultsForMissingFields ==
  (returned[TRUE].status = "ok" /\ IdentityOrder) =>
    LET part == pkg.rels[1]
    IN  (/\ part.present /\ part.well_formed
         /\ Len(part.rels) = 1
         /\ InNs(part.rels[1]) /\ Resolves(part.rels[1])
         /\ pkg.comments[Basename(part.rels[1].target)].well_formed)
        => /\ returned[TRUE].data[1].comments =
                DefaultedComments(pkg.comments[Basename(part.rels[1].target)])
           /\ NumSlides = 1 => ~returned[TRUE].warned

\* C5: when comment resolution fails for one slide k, the call returns all
\* records with a warning, slide k has no comments, and every other slide has
\* the comments it has without the failure.
C5_FailureStaysOnItsSlide ==
  (returned[TRUE].status = "ok" /\ IdentityOrder) =>
    \A k \in 1..NumSlides :
      (/\ ResolutionFails(k)
       /\ \A j \in 1..NumSlides : j # k => ~ResolutionFails(j))
      => /\ returned[TRUE].warned
         /\ Len(returned[TRUE].data) = NumSlides
         /\ returned[TRUE].data[k].comments = <<>>
         /\ \A j \in 1..NumSlides :
              j # k => returned[TRUE].data[j].comments = ExpectedComments(j)

\* C6: without comments every record has an empty comment list, and the slide
\* numbers and body texts are those of the call with comments on the same
\* package.
C6_NoCommentsLeavesBodyAlone ==
  /\ returned[FALSE].status = "ok" =>
       \A k \in 1..Len(returned[FALSE].data) :
         returned[FALSE].data[k].comments = <<>>
  /\ (returned[FALSE].status # "none" /\ returned[TRUE].status # "none") =>
       /\ returned[FALSE].status = returned[TRUE].status
       /\ Len(returned[FALSE].data) = Len(returned[TRUE].data)
       /\ \A k \in 1..Len(returned[FALSE].data) :
            /\ returned[FALSE].data[k].slide_number =
                 returned[TRUE].data[k].slide_number
            /\ returned[FALSE].data[k].body_text =
                 returned[TRUE].data[k].body_text

C6_Witness ==
  /\ returned[FALSE].status = "ok"
  /\ returned[TRUE].status = "ok"
  /\ \E k \in 1..NumSlides :
       /\ returned[TRUE].data[k].comments # <<>>
       /\ returned[TRUE].data[k].body_text # <<>>

C8_RaisesOnlyWhenUnopenable ==
  \A f \in BOOLEAN : returned[f].status = "raised" => ~pkg.openable

\* C9: the comments of record k are those linked from the relationship part
\* of the slide part at position k, whatever the part is named.
C9_CommentsOfOwnSlidePart ==
  (returned[TRUE].status = "ok" /\ ~returned[TRUE].warned) =>
    \A k \in 1..NumSlides :
      returned[TRUE].data[k].comments = ExpectedComments(pkg.slides[k].part)

\* C10: no archive or part handle is open before the comment step, when slide
\* body extraction begins or after the call has ended, on the normal path and
\* after an exception; a part handle is open only inside the archive's block.
C10_HandlesReleased ==
  /\ pc \in {"idle", "open_zip", "body"} => handles = {}
  /\ pc = "slide_rels" => handles = {"zf"}
  /\ handles # {} => "zf" \in handles
  /\ "cf" \in handles => "rel_file" \in handles

\* the comment step failed after comments had been read
C10_Witness ==
  /\ pc = "body"
  /\ warned
  /\ \E k \in DOMAIN all_comments : all_comments[k] # <<>>
  /\ handles = {}

====
